---- MODULE Spec2Model ----
(***************************************************************************)
(* Model of src/js/slider-principal.js: an image carousel driven by a      *)
(* group of radio inputs, two arrow buttons and a repeating timer.         *)
(*                                                                         *)
(* The script is one DOMContentLoaded listener.  It reads the radios,      *)
(* initialises `indice`, wires click/change/beforeunload listeners and     *)
(* starts an interval timer.  Every listener runs to completion (one       *)
(* action per listener).  The browser side (the radio group, the map of    *)
(* active timers, the passage of time) is modelled by what the code asks   *)
(* of it: setInterval, clearInterval, radio.checked.                       *)
(***************************************************************************)
EXTENDS Integers, Sequences, FiniteSets, TLC

\* ------------------------------------------------------------------
\* Bounds of the model
\* ------------------------------------------------------------------
\* largest number of radios in the page
MaxN == 4
\* timer ids the browser may hand out: 1..MaxTimerId
MaxTimerId == 2
\* granularity of the passage of time, in milliseconds
TimeStep == 1000
\* longest run of next-arrow clicks that is counted
MaxRun == 2
\* arguments tried when mostrarImagen is called directly: -MaxArg..MaxArg
MaxArg == 9

\* ------------------------------------------------------------------
\* Program constant
\* ------------------------------------------------------------------
AUTOPLAY_MS == 3000

VARIABLES
    radios,      \* radios[i] = radios[i].checked, i in 0..N-1 (the NodeList)
    grouped,     \* TRUE iff the radios share one name (one radio group)
    btnDer,      \* TRUE iff document.querySelector('.flecha.der') is an element
    btnIzq,      \* TRUE iff document.querySelector('.flecha.izq') is an element
    pc,          \* "loading" | "ready" | "failed": position of the script
    indice,      \* the closure variable `indice`; -1 before it is declared
    autoPlay,    \* the closure variable `autoPlay`; 0 is null, else a timer id
    timers,      \* browser's map of active timers: id -> ms since (re)armed
    listeners,   \* listeners registered by the script
    consola,     \* messages written with console.error / console.warn
    ev,          \* the last event or step that was processed
    calls,       \* arguments of the mostrarImagen calls made by the last step
    sinceManual, \* ms since the last arrow click / radio change (saturates)
    nextRun,     \* number of next clicks so far if nothing else was wired in
                 \* between (ticks and time apart), -1 otherwise
    sinceUnload, \* "none": no beforeunload yet; "idle": beforeunload was
                 \* processed and no click or change event since; "resumed"
    log          \* the latest arrow clicks and ticks with nothing but time
                 \* between them: records [e: event, a: indice before it]

vars == <<radios, grouped, btnDer, btnIzq, pc, indice, autoPlay, timers,
          listeners, consola, ev, calls, sinceManual, nextRun, sinceUnload,
          log>>

\* state owned by the controller (the closure) and the things it drives
ctrl == <<radios, pc, indice, autoPlay, timers, listeners, consola>>

N == Cardinality(DOMAIN radios)

TimerIds == 1..MaxTimerId

Min(a, b) == IF a < b THEN a ELSE b

\* ------------------------------------------------------------------
\* Browser primitives used by the script
\* ------------------------------------------------------------------

\* JavaScript's % : the remainder takes the sign of the dividend
JsRem(a, n) == IF a >= 0 THEN a % n ELSE -((-a) % n)

\* radios[i].checked = true.  In a radio group the others are unchecked.
SetChecked(rs, i) ==
    IF i \in DOMAIN rs
    THEN IF grouped THEN [j \in DOMAIN rs |-> j = i]
                    ELSE [rs EXCEPT ![i] = TRUE]
    ELSE rs

\* The map of active timers gives every id of TimerIds the milliseconds
\* since it was armed, or -1 when the id is not active.
Live(ts) == {t \in DOMAIN ts : ts[t] >= 0}

\* setInterval(cb, AUTOPLAY_MS) returning id: the entry is armed from zero
SetInterval(ts, id) == [ts EXCEPT ![id] = 0]

\* clearInterval(id): removes the entry; an id that is not active is ignored
ClearInterval(ts, id) == [ts EXCEPT ![id] = -1]

\* an id setInterval may return: not active, and not the one still held
FreshId(id) == id \in TimerIds /\ id \notin Live(timers) /\ id # autoPlay

\* Array.from(radios).findIndex(r => r.checked), scanning from position k
RECURSIVE FindFrom(_, _)
FindFrom(rs, k) ==
    IF k \notin DOMAIN rs THEN -1
    ELSE IF rs[k] THEN k
    ELSE FindFrom(rs, k + 1)

FindIndex(rs) == FindFrom(rs, 0)

\* ------------------------------------------------------------------
\* Functions of the script
\* ------------------------------------------------------------------

RadiosVacioNunca(rs) == FALSE

\* line 22: !radios || radios.length === 0
RadiosVacio(rs) == DOMAIN rs = {}

IndiceInicialCero(rs) == 0

\* lines 45-48: findIndex, and 0 when it answers -1
IndiceInicial(rs) == IF FindIndex(rs) = -1 THEN 0 ELSE FindIndex(rs)

NormalizarSimple(index, n) == JsRem(index, n)

NormalizarClamp(index, n) ==
    IF index < 0 THEN 0 ELSE IF index >= n THEN n - 1 ELSE index

\* line 76: index = ((index % n) + n) % n
Normalizar(index, n) == JsRem(JsRem(index, n) + n, n)

ClearIfSetNunca(ts, h) == ts

\* lines 100, 117, 200: if (autoPlay) clearInterval(autoPlay)
ClearIfSet(ts, h) == IF h # 0 THEN ClearInterval(ts, h) ELSE ts

IniciarLimpiaDespues(ts, h, id) == ClearInterval(SetInterval(ts, id), id)

\* iniciarAutoPlay: the map of timers after the call; autoPlay becomes id
IniciarAutoPlay(ts, h, id) == SetInterval(ClearIfSet(ts, h), id)

ReiniciarSinLimpiar(ts, h, id) == SetInterval(ts, id)

\* reiniciarAutoPlay: clears, then calls iniciarAutoPlay
ReiniciarAutoPlay(ts, h, id) == IniciarAutoPlay(ClearIfSet(ts, h), h, id)

LimpiezaNada(ts, h) == ts

\* the beforeunload listener (lines 195-201)
Limpieza(ts, h) == ClearIfSet(ts, h)

MostrarImagenSinGuardar(index) ==
    LET i == Normalizar(index, N) IN
    /\ radios' = SetChecked(radios, i)
    /\ indice' = indice
    /\ calls' = <<index>>

\* mostrarImagen(index): checks the radio and stores the index
MostrarImagen(index) ==
    LET i == Normalizar(index, N) IN
    /\ radios' = SetChecked(radios, i)
    /\ indice' = i
    /\ calls' = <<index>>

EscuchasSiHayFlechas(der, izq, rs) ==
    IF der /\ izq
    THEN [der |-> TRUE, izq |-> TRUE, change |-> DOMAIN rs, unload |-> TRUE]
    ELSE [der |-> der, izq |-> FALSE, change |-> {}, unload |-> FALSE]

\* lines 128-201: the listeners the set-up registers
Escuchas(der, izq, rs) ==
    [der |-> der, izq |-> izq, change |-> DOMAIN rs, unload |-> TRUE]

\* lines 142, 160: one console.warn for each arrow that is missing
Avisos(der, izq) ==
    (IF der THEN {} ELSE {"warn_der"}) \cup (IF izq THEN {} ELSE {"warn_izq"})

\* ------------------------------------------------------------------
\* Record of the events processed
\* ------------------------------------------------------------------

\* a click or change event was processed: a teardown is no longer the last
Reanuda == IF sinceUnload = "none" THEN "none" ELSE "resumed"

\* the runs the log keeps: any two events, or up to MaxN next clicks, or up
\* to MaxN ticks
Permitido(s) ==
    \/ Len(s) <= 2
    \/ /\ Len(s) <= MaxN
       /\ s[1].e \in {"click_der", "tick"}
       /\ \A k \in 1..Len(s) : s[k].e = s[1].e

\* the longest suffix of s that the log keeps
RECURSIVE Recorta(_)
Recorta(s) == IF Permitido(s) THEN s ELSE Recorta(Tail(s))

\* the log after event e was processed from the present indice
Anota(e) == Recorta(Append(log, [e |-> e, a |-> indice]))

\* ------------------------------------------------------------------
\* Initial states: the page before DOMContentLoaded
\* ------------------------------------------------------------------
Init ==
    /\ grouped \in BOOLEAN
    /\ \E n \in 0..MaxN :
         /\ radios \in [0..(n - 1) -> BOOLEAN]
         /\ grouped => Cardinality({k \in DOMAIN radios : radios[k]}) <= 1
    /\ btnDer \in BOOLEAN
    /\ btnIzq \in BOOLEAN
    /\ pc = "loading"
    /\ indice = -1
    /\ autoPlay = 0
    /\ timers = [t \in TimerIds |-> -1]
    /\ listeners = [der |-> FALSE, izq |-> FALSE, change |-> {}, unload |-> FALSE]
    /\ consola = {}
    /\ ev = "none"
    /\ calls = <<>>
    /\ sinceManual = AUTOPLAY_MS
    /\ nextRun = -1
    /\ sinceUnload = "none"
    /\ log = <<>>

\* ------------------------------------------------------------------
\* The script: the DOMContentLoaded listener (lines 8-205)
\* ------------------------------------------------------------------
DOMContentLoaded ==
    /\ pc = "loading"
    /\ ev' = "DOMContentLoaded"
    /\ calls' = <<>>
    /\ UNCHANGED <<grouped, btnDer, btnIzq, sinceManual, sinceUnload, log>>
    /\ IF RadiosVacio(radios)
       THEN /\ consola' = consola \cup {"error_radios"}
            /\ pc' = "failed"
            /\ UNCHANGED <<radios, indice, autoPlay, timers, listeners, nextRun>>
       ELSE /\ indice' = IndiceInicial(radios)
            /\ radios' = SetChecked(radios, indice')
            /\ listeners' = Escuchas(btnDer, btnIzq, radios)
            /\ consola' = consola \cup Avisos(btnDer, btnIzq)
            /\ \E id \in TimerIds :
                 /\ FreshId(id)
                 /\ timers' = IniciarAutoPlay(timers, autoPlay, id)
                 /\ autoPlay' = id
            /\ pc' = "ready"
            /\ nextRun' = 0

\* ------------------------------------------------------------------
\* Listeners
\* ------------------------------------------------------------------

\* the tail shared by the three manual listeners: reiniciarAutoPlay()
Reiniciar ==
    \E id \in TimerIds :
        /\ FreshId(id)
        /\ timers' = ReiniciarAutoPlay(timers, autoPlay, id)
        /\ autoPlay' = id

\* an event for which the script registered no listener: nothing runs
SinEscucha ==
    /\ calls' = <<>>
    /\ UNCHANGED <<radios, indice, autoPlay, timers>>

ClickDerSinReinicio ==
    /\ pc # "loading"
    /\ btnDer
    /\ ev' = "click_der"
    /\ sinceManual' = 0
    /\ IF listeners.der
       THEN /\ MostrarImagen(indice + 1)
            /\ nextRun' = IF nextRun >= 0 THEN Min(nextRun + 1, MaxRun) ELSE nextRun
            /\ log' = Anota("click_der")
            /\ UNCHANGED <<autoPlay, timers>>
       ELSE SinEscucha /\ UNCHANGED <<nextRun, log>>
    /\ sinceUnload' = Reanuda
    /\ UNCHANGED <<grouped, btnDer, btnIzq, pc, listeners, consola>>

\* click on .flecha.der (lines 131-138)
ClickDer ==
    /\ pc # "loading"
    /\ btnDer
    /\ ev' = "click_der"
    /\ sinceManual' = 0
    /\ IF listeners.der
       THEN /\ MostrarImagen(indice + 1)
            /\ Reiniciar
            /\ nextRun' = IF nextRun >= 0 THEN Min(nextRun + 1, MaxRun) ELSE nextRun
            /\ log' = Anota("click_der")
       ELSE SinEscucha /\ UNCHANGED <<nextRun, log>>
    /\ sinceUnload' = Reanuda
    /\ UNCHANGED <<grouped, btnDer, btnIzq, pc, listeners, consola>>

\* click on .flecha.izq (lines 149-156)
ClickIzq ==
    /\ pc # "loading"
    /\ btnIzq
    /\ ev' = "click_izq"
    /\ sinceManual' = 0
    /\ IF listeners.izq
       THEN /\ MostrarImagen(indice - 1)
            /\ Reiniciar
            /\ log' = Anota("click_izq")
       ELSE SinEscucha /\ UNCHANGED log
    /\ nextRun' = -1
    /\ sinceUnload' = Reanuda
    /\ UNCHANGED <<grouped, btnDer, btnIzq, pc, listeners, consola>>

ChangeHandlerSinGuarda(rs, i) ==
    /\ indice' = i
    /\ Reiniciar

\* the handler of `change` on radios[i] (lines 168-173)
ChangeHandler(rs, i) ==
    IF rs[i]
    THEN /\ indice' = i
         /\ Reiniciar
    ELSE UNCHANGED <<indice, autoPlay, timers>>

\* the user picks radio i: the browser checks it, then dispatches `change`
UserSelect(i) ==
    /\ pc # "loading"
    /\ i \in DOMAIN radios
    /\ ~radios[i]
    /\ ev' = "select"
    /\ sinceManual' = 0
    /\ calls' = <<>>
    /\ radios' = SetChecked(radios, i)
    /\ IF i \in listeners.change
       THEN ChangeHandler(radios', i)
       ELSE UNCHANGED <<indice, autoPlay, timers>>
    /\ nextRun' = -1
    /\ sinceUnload' = Reanuda
    /\ log' = <<>>
    /\ UNCHANGED <<grouped, btnDer, btnIzq, pc, listeners, consola>>

\* a `change` event dispatched on radio i without the user checking it
ChangeEvent(i) ==
    /\ pc # "loading"
    /\ i \in DOMAIN radios
    /\ ev' = "change"
    /\ calls' = <<>>
    /\ IF i \in listeners.change
       THEN ChangeHandler(radios, i)
       ELSE UNCHANGED <<indice, autoPlay, timers>>
    /\ nextRun' = -1
    /\ sinceUnload' = Reanuda
    /\ log' = <<>>
    /\ UNCHANGED <<radios, grouped, btnDer, btnIzq, pc, listeners, consola,
                   sinceManual>>

TimerFireReinicia(t) ==
    /\ t \in Live(timers)
    /\ timers[t] >= AUTOPLAY_MS
    /\ ev' = "tick"
    /\ MostrarImagen(indice + 1)
    /\ Reiniciar
    /\ log' = Anota("tick")
    /\ UNCHANGED <<grouped, btnDer, btnIzq, pc, listeners, consola,
                   sinceManual, nextRun, sinceUnload>>

\* the interval callback of timer t (lines 103-106); the browser re-arms it
TimerFire(t) ==
    /\ t \in Live(timers)
    /\ timers[t] >= AUTOPLAY_MS
    /\ ev' = "tick"
    /\ MostrarImagen(indice + 1)
    /\ timers' = [timers EXCEPT ![t] = 0]
    /\ log' = Anota("tick")
    /\ UNCHANGED <<grouped, btnDer, btnIzq, pc, autoPlay, listeners, consola,
                   sinceManual, nextRun, sinceUnload>>

\* TimeStep milliseconds pass; a timer that is due stays due until it fires
PasaTiempo ==
    /\ pc # "loading"
    /\ ev' = "time"
    /\ calls' = <<>>
    /\ timers' = [t \in DOMAIN timers |->
                    IF timers[t] >= 0 THEN Min(timers[t] + TimeStep, AUTOPLAY_MS)
                    ELSE timers[t]]
    /\ sinceManual' = Min(sinceManual + TimeStep, AUTOPLAY_MS)
    /\ UNCHANGED <<radios, grouped, btnDer, btnIzq, pc, indice, autoPlay,
                   listeners, consola, nextRun, sinceUnload, log>>

\* beforeunload on window (lines 195-201)
BeforeUnload ==
    /\ pc # "loading"
    /\ ev' = "beforeunload"
    /\ calls' = <<>>
    /\ timers' = IF listeners.unload THEN Limpieza(timers, autoPlay) ELSE timers
    /\ nextRun' = -1
    /\ sinceUnload' = "idle"
    /\ log' = <<>>
    /\ UNCHANGED <<radios, grouped, btnDer, btnIzq, pc, indice, autoPlay,
                   listeners, consola, sinceManual>>

Next ==
    \/ DOMContentLoaded
    \/ ClickDer
    \/ ClickIzq
    \/ \E i \in 0..(MaxN - 1) : UserSelect(i)
    \/ \E i \in 0..(MaxN - 1) : ChangeEvent(i)
    \/ \E t \in TimerIds : TimerFire(t)
    \/ PasaTiempo
    \/ BeforeUnload

Spec == Init /\ [][Next]_vars

\* ------------------------------------------------------------------
\* mostrarImagen on arbitrary integers: the function called directly on
\* an initialised carousel, with no other event in between
\* ------------------------------------------------------------------
LlamarMostrarImagen(i) ==
    /\ pc = "ready"
    /\ ev' = "mostrarImagen"
    /\ MostrarImagen(i)
    /\ UNCHANGED <<grouped, btnDer, btnIzq, pc, autoPlay, timers, listeners,
                   consola, sinceManual, nextRun, sinceUnload, log>>

NextFn ==
    \/ DOMContentLoaded
    \/ \E i \in (-MaxArg)..MaxArg : LlamarMostrarImagen(i)

SpecFn == Init /\ [][NextFn]_vars

\* ------------------------------------------------------------------
\* Autoplay left alone: after the set-up only time passes and the timer
\* fires.  Time does pass, and the event loop does run a timer that is due.
\* ------------------------------------------------------------------
NextAuto ==
    \/ DOMContentLoaded
    \/ \E t \in TimerIds : TimerFire(t)
    \/ PasaTiempo

SpecAuto ==
    /\ Init
    /\ [][NextAuto]_vars
    /\ WF_vars(PasaTiempo)
    /\ WF_vars(\E t \in TimerIds : TimerFire(t))

\* ------------------------------------------------------------------
\* Properties
\* ------------------------------------------------------------------
Checked == {k \in DOMAIN radios : radios[k]}

NumLive == Cardinality(Live(timers))

\* C1: once the set-up has succeeded, indice is a position of the radio
\* list, 0 <= indice <= N-1, whatever events have been processed.
C1_IndiceEnRango == pc = "ready" => (N >= 1 /\ indice \in 0..(N - 1))

\* an arrow click wrapped around the end of the list
C1_Witness ==
    /\ pc = "ready" /\ N >= 3
    /\ \/ ev = "click_izq" /\ indice = N - 1
       \/ ev = "click_der" /\ indice = 0

\* quotient rounded towards zero, and the remainder that goes with it
TruncDiv(a, n) == IF a >= 0 THEN a \div n ELSE -((-a) \div n)
TruncRem(a, n) == a - n * TruncDiv(a, n)

\* C2: mostrarImagen(i) leaves indice = ((i rem N) + N) rem N with rem the
\* remainder that takes the sign of the dividend; that is i mod N, a value
\* of 0..N-1; for N = 3: 3 -> 0, -1 -> 2, 5 -> 2.
C2_Normaliza ==
    ev = "mostrarImagen" =>
        LET i == calls[1] IN
        /\ indice = TruncRem(TruncRem(i, N) + N, N)
        /\ indice \in 0..(N - 1)
        /\ \E q \in (-MaxArg - 1)..(MaxArg + 1) : i = q * N + indice
        /\ (N = 3 /\ i = 3) => indice = 0
        /\ (N = 3 /\ i = -1) => indice = 2
        /\ (N = 3 /\ i = 5) => indice = 2

\* a negative argument was normalised
C2_Witness == ev = "mostrarImagen" /\ N = 3 /\ calls = <<-1>> /\ indice = 2

\* C3: at most one timer is active, and it is the one autoPlay holds: every
\* creation cancelled the one held before.
C3_UnSoloTimer == NumLive <= 1 /\ Live(timers) \subseteq {autoPlay}

\* a timer was replaced by a manual event
C3_Witness ==
    /\ ev \in {"click_izq", "select", "change"}
    /\ NumLive = 1
    /\ sinceManual = 0

\* C4: after the set-up and any number of next clicks, with no teardown in
\* between, exactly one timer is active.
C4_ExactamenteUno == nextRun >= 0 => NumLive = 1

\* two or more next clicks in a row
C4_Witness == nextRun >= 2 /\ ev = "click_der" /\ NumLive = 1

Unwired == [der |-> FALSE, izq |-> FALSE, change |-> {}, unload |-> FALSE]

\* C5: with no radios the set-up reports an error and stops: no timer, no
\* listener, and no later event changes the controller's state.
C5_SinRadios ==
    /\ [](N = 0 /\ pc # "loading" =>
            /\ pc = "failed"
            /\ "error_radios" \in consola
            /\ NumLive = 0 /\ autoPlay = 0
            /\ listeners = Unwired)
    /\ [][N = 0 /\ pc # "loading" => UNCHANGED ctrl]_vars

\* an arrow was clicked after the failed set-up
C5_Witness == pc = "failed" /\ N = 0 /\ ev \in {"click_der", "beforeunload"}

\* C6: the set-up leaves indice at the (first) radio that was checked in the
\* page, or at 0 when none was, and that radio is checked afterwards.
C6_IndiceInicial ==
    [][pc = "loading" /\ pc' = "ready" =>
        /\ (\A k \in DOMAIN radios : ~radios[k]) => indice' = 0
        /\ (\E k \in DOMAIN radios : radios[k]) =>
              /\ radios[indice']
              /\ \A j \in 0..(indice' - 1) : ~radios[j]
        /\ radios'[indice']]_vars

\* four radios, the third one checked in the page
C6_Witness ==
    /\ ev = "DOMContentLoaded" /\ pc = "ready"
    /\ N = 4 /\ indice = 2 /\ Checked = {2}

\* C7: in a radio group exactly one radio is checked after the set-up, the
\* one at indice.
C7_UnoMarcado == (pc = "ready" /\ grouped) => Checked = {indice}

\* the user picked a radio, or a change event reached an unchecked one
C7_Witness ==
    /\ pc = "ready" /\ grouped /\ N >= 3
    /\ ev \in {"select", "change"}
    /\ indice = 2

Manual == {"click_der", "click_izq", "select"}

\* C8: a manual event cancels the timer and starts a new one from zero, so
\* a tick comes only from the timer autoPlay holds and never less than
\* AUTOPLAY_MS after the last manual event.
C8_ReinicioTrasManual ==
    /\ [][(pc = "ready" /\ ev' \in Manual /\ sinceManual' = 0 /\ vars' # vars) =>
            /\ autoPlay' \notin Live(timers)
            /\ Live(timers') = {autoPlay'}
            /\ timers'[autoPlay'] = 0]_vars
    /\ [][(ev' = "tick" /\ timers' # timers) =>
            /\ sinceManual >= AUTOPLAY_MS
            /\ timers[autoPlay] >= AUTOPLAY_MS
            /\ timers'[autoPlay] = 0]_vars
    /\ [](NumLive > 0 /\ autoPlay # 0 /\ timers[autoPlay] >= 0
            => timers[autoPlay] <= sinceManual)

\* a tick after a manual event
C8_Witness ==
    /\ ev = "tick" /\ sinceManual = AUTOPLAY_MS
    /\ nextRun >= 1

\* C9: the teardown cancels the timer, reports nothing, keeps indice, and a
\* second teardown right after the first changes nothing.
C9_Limpieza ==
    [][(pc = "ready" /\ ev' = "beforeunload") =>
        /\ NumLive' = 0
        /\ indice' = indice
        /\ consola' = consola
        /\ radios' = radios
        /\ ev = "beforeunload" => UNCHANGED vars]_vars

\* the teardown cancelled a timer that was active
C9_Witness ==
    /\ ev = "beforeunload" /\ pc = "ready"
    /\ autoPlay # 0 /\ NumLive = 0

\* C10: with an arrow missing and N >= 1 the set-up still completes: indice
\* is set, change and beforeunload listeners are wired, the timer runs, the
\* missing arrow has no listener and no click, and each missing arrow is
\* warned about.
C10_FlechaAusente ==
    (N >= 1 /\ pc # "loading" /\ (~btnDer \/ ~btnIzq)) =>
        /\ pc = "ready"
        /\ indice \in 0..(N - 1)
        /\ listeners.change = DOMAIN radios
        /\ listeners.unload
        /\ listeners.der = btnDer /\ listeners.izq = btnIzq
        /\ ev = "DOMContentLoaded" => (NumLive = 1 /\ Live(timers) = {autoPlay})
        /\ ~btnDer => (ev # "click_der" /\ "warn_der" \in consola)
        /\ ~btnIzq => (ev # "click_izq" /\ "warn_izq" \in consola)
        /\ btnDer => "warn_der" \notin consola
        /\ btnIzq => "warn_izq" \notin consola
        /\ "error_radios" \notin consola

\* the left arrow works although the right one is missing
C10_Witness ==
    /\ pc = "ready" /\ ~btnDer /\ btnIzq
    /\ ev = "click_izq" /\ consola = {"warn_der"}

\* C11: a timer tick sets indice to (indice + 1) mod N, checks that radio
\* and re-arms the same timer; autoPlay and the set of active timers are
\* the same before and after, and nothing else of the controller changes.
C11_TickSoloAvanza ==
    [][(ev' = "tick" /\ timers' # timers) =>
        /\ indice' = (indice + 1) % N
        /\ autoPlay' = autoPlay
        /\ Live(timers') = Live(timers)
        /\ Live(timers') = {autoPlay'}
        /\ UNCHANGED <<pc, listeners, consola>>]_vars

\* a tick wrapped around from the last radio to the first
C11_Witness ==
    /\ ev = "tick" /\ N >= 3 /\ indice = 0
    /\ log # <<>> /\ log[Len(log)] = [e |-> "tick", a |-> N - 1]

\* the step ran a manual listener that restarted the timer
RestartedIn ==
    /\ autoPlay' # autoPlay
    /\ autoPlay \notin Live(timers')
    /\ Live(timers') = {autoPlay'}
    /\ timers'[autoPlay'] = 0

\* C12: a next click sets indice to (a + 1) mod N and a previous click to
\* (a - 1 + N) mod N, a being indice before the click, so next from N-1
\* gives 0 and previous from 0 gives N-1; the same step restarts the timer.
C12_FlechasMueven ==
    [][(pc = "ready" /\ vars' # vars) =>
        /\ ev' = "click_der" =>
              /\ indice' = (indice + 1) % N
              /\ indice = N - 1 => indice' = 0
              /\ RestartedIn
        /\ ev' = "click_izq" =>
              /\ indice' = (indice - 1 + N) % N
              /\ indice = 0 => indice' = N - 1
              /\ RestartedIn]_vars

\* a previous click from the first radio landed on the last
C12_Witness ==
    /\ ev = "click_izq" /\ N >= 3 /\ indice = N - 1
    /\ log # <<>> /\ log[Len(log)] = [e |-> "click_izq", a |-> 0]
    /\ NumLive = 1 /\ timers[autoPlay] = 0

\* C13: when the user picks radio i the handler stores i in indice and
\* restarts the timer, which is the state mostrarImagen(i) followed by
\* reiniciarAutoPlay() would leave (i is in range, radio i is checked); a
\* change event on a radio that is not checked changes neither indice nor
\* the timer.
C13_SeleccionDirecta ==
    [][\A i \in 0..(MaxN - 1) :
        /\ (pc = "ready" /\ UserSelect(i)) =>
              /\ indice' = i
              /\ indice' = Normalizar(i, N)
              /\ radios' = SetChecked(radios', Normalizar(i, N))
              /\ RestartedIn
        /\ (pc = "ready" /\ ChangeEvent(i) /\ ~radios[i]) =>
              UNCHANGED <<indice, radios, autoPlay, timers>>]_vars

\* the user picked the last radio while another one was shown
C13_Witness ==
    /\ ev = "select" /\ pc = "ready" /\ N >= 3
    /\ indice = N - 1 /\ radios[N - 1]
    /\ NumLive = 1 /\ timers[autoPlay] = 0

\* C14 as stated: once a beforeunload has been processed no timer tick
\* happens any more, whatever events follow.
C14_Original ==
    [][(sinceUnload # "none" /\ ev' = "tick" /\ timers' # timers) =>
        indice' = indice]_vars

\* C14: once a beforeunload has been processed, no timer is active and no
\* tick happens as long as no click or change event is processed after it.
C14_SinTickHastaReanudar ==
    (pc = "ready" /\ sinceUnload = "idle") => (ev # "tick" /\ NumLive = 0)

\* time passed after the teardown and nothing fired
C14_Witness ==
    /\ pc = "ready" /\ sinceUnload = "idle"
    /\ ev = "time" /\ sinceManual = AUTOPLAY_MS
    /\ autoPlay # 0 /\ NumLive = 0

\* C17 as stated: every step that changes indice after the set-up calls
\* mostrarImagen.
C17_Original ==
    [][(pc = "ready" /\ indice' # indice) => calls' # <<>>]_vars

\* C17: a step that changes indice after the set-up either calls
\* mostrarImagen (arrow click, tick), which leaves its argument mod N, or is
\* the change handler of a radio that is checked, which stores the radio's
\* own position without calling mostrarImagen.
C17_DosCaminos ==
    [][(pc = "ready" /\ indice' # indice) =>
        \/ /\ ev' \in {"click_der", "click_izq", "tick"}
           /\ Len(calls') = 1
           /\ indice' = calls'[1] % N
        \/ /\ ev' \in {"select", "change"}
           /\ calls' = <<>>
           /\ radios'[indice']
           /\ ev' = "change" => radios[indice']]_vars

\* the user picked the second radio; mostrarImagen was not called
C17_Witness ==
    /\ pc = "ready" /\ ev = "select" /\ calls = <<>>
    /\ indice = 1 /\ Checked = {1} /\ nextRun = -1

\* the events of the log, in order
LogEvs == [k \in 1..Len(log) |-> log[k].e]

\* C15: a next click and a timer tick processed one after the other from
\* indice a, in either order, leave indice = (a + 2) mod N (each listener
\* read the index the other one had stored), and exactly one timer is
\* active afterwards.
C15_SinActualizacionPerdida ==
    (LogEvs = <<"click_der", "tick">> \/ LogEvs = <<"tick", "click_der">>) =>
        /\ log[2].a = (log[1].a + 1) % N
        /\ indice = (log[1].a + 2) % N
        /\ NumLive = 1
        /\ Live(timers) = {autoPlay}

\* the tick of the restarted timer came after the click and wrapped around
C15_Witness ==
    /\ LogEvs = <<"click_der", "tick">> /\ ev = "tick"
    /\ N = 3 /\ log[1].a = 2 /\ indice = 1

\* C18: a next click followed by a previous click, or the reverse, brings
\* indice back to where it was, and so do N next clicks in a row and N
\* ticks in a row.
C18_IdaYVuelta ==
    /\ (LogEvs = <<"click_der", "click_izq">> \/ LogEvs = <<"click_izq", "click_der">>)
          => indice = log[1].a
    /\ (pc = "ready" /\ Len(log) = N /\ \A k \in 1..Len(log) : log[k].e = "click_der")
          => indice = log[1].a
    /\ (pc = "ready" /\ Len(log) = N /\ \A k \in 1..Len(log) : log[k].e = "tick")
          => indice = log[1].a

\* as many next clicks as there are radios, back at the start
C18_Witness ==
    /\ N = MaxN /\ Len(log) = N
    /\ \A k \in 1..Len(log) : log[k].e = "click_der"
    /\ indice = log[1].a /\ indice = 1

\* C16: with no manual event and no teardown, and the timer fairly
\* scheduled, every position 0..N-1 is shown again and again by a tick, and
\* indice only ever moves to the next position, wrapping at the end.
C16_CicloAutomatico ==
    /\ \A k \in 0..(MaxN - 1) :
          []((pc = "ready" /\ k < N) => <>(indice = k /\ ev = "tick"))
    /\ [][(pc = "ready" /\ indice' # indice) => indice' = (indice + 1) % N]_vars

\* three ticks took a carousel of three radios once around
C16_Witness ==
    /\ N = 3 /\ LogEvs = <<"tick", "tick", "tick">>
    /\ indice = 0 /\ log[1].a = 0 /\ sinceUnload = "none"

====
